---- MODULE Spec2Model ----
(***************************************************************************)
(* Model of src/src/clustering.cpp (fgt): the Clustering base constructor, *)
(* Clustering::choose_truncation_number and the GonzalezClustering         *)
(* constructor (farthest-point clustering with triangle-inequality         *)
(* pruning over circular doubly-linked membership lists).                  *)
(***************************************************************************)
EXTENDS Integers, Sequences, FiniteSets, TLC

(***************************************************************************)
(* Bounds of the model.                                                    *)
(***************************************************************************)
\* largest number of source rows (points) of a clustering run
MaxN == 4
\* source coordinates are integers in 0..(MaxCoord + 2)
MaxCoord == 3
\* largest number of source rows when the constructor arguments are unchecked
MaxArgN == 2

\* the sources of two columns have at most MaxPlanarN rows
MaxPlanarN == 3
\* bits of the significand of the model's binary floating-point numbers
MantissaBits == 12
\* terms of the power series that evaluate std::exp and std::log
SeriesTerms == 18

(***************************************************************************)
(* double: a binary floating-point number s * m * 2^e with a significand   *)
(* of MantissaBits bits (results are rounded toward zero), signed zeros,   *)
(* infinities and NaN.                                                     *)
(***************************************************************************)
RECURSIVE Pow2(_)
Pow2(n) == IF n <= 0 THEN 1 ELSE 2 * Pow2(n - 1)

\* the powers of two, tabulated
Pow2Table == [n \in 0..30 |-> Pow2(n)]

\* significands lie in MantissaLow..(MantissaTop - 1)
MantissaTop == Pow2Table[MantissaBits]

MantissaLow == Pow2Table[MantissaBits - 1]

FNaN == [k |-> "nan", s |-> 1, m |-> 0, e |-> 0]

FInf(s) == [k |-> "inf", s |-> s, m |-> 0, e |-> 0]

FZero(s) == [k |-> "num", s |-> s, m |-> 0, e |-> 0]

IsNaN(a) == a.k = "nan"

IsInf(a) == a.k = "inf"

IsZero(a) == a.k = "num" /\ a.m = 0

\* the significand brought into MantissaLow..(MantissaTop - 1), eight, four,
\* two or one bit at a time; bits shifted out are dropped
RECURSIVE FNorm(_, _, _)
FNorm(s, m, e) ==
    IF m = 0 THEN FZero(s)
    ELSE IF m >= MantissaTop
         THEN IF m >= MantissaTop * 128 THEN FNorm(s, m \div 256, e + 8)
              ELSE IF m >= MantissaTop * 8 THEN FNorm(s, m \div 16, e + 4)
              ELSE IF m >= MantissaTop * 2 THEN FNorm(s, m \div 4, e + 2)
              ELSE FNorm(s, m \div 2, e + 1)
    ELSE IF m < MantissaLow
         THEN IF m * 256 < MantissaTop THEN FNorm(s, m * 256, e - 8)
              ELSE IF m * 16 < MantissaTop THEN FNorm(s, m * 16, e - 4)
              ELSE IF m * 4 < MantissaTop THEN FNorm(s, m * 4, e - 2)
              ELSE FNorm(s, m * 2, e - 1)
    ELSE [k |-> "num", s |-> s, m |-> m, e |-> e]

\* conversion of an int to double
FromInt(n) == IF n < 0 THEN FNorm(-1, -n, 0) ELSE FNorm(1, n, 0)

FNeg(a) == IF IsNaN(a) THEN a ELSE [a EXCEPT !.s = -a.s]

FMul(a, b) ==
    IF IsNaN(a) \/ IsNaN(b) THEN FNaN
    ELSE IF IsInf(a) \/ IsInf(b)
         THEN IF IsZero(a) \/ IsZero(b) THEN FNaN ELSE FInf(a.s * b.s)
    ELSE FNorm(a.s * b.s, a.m * b.m, a.e + b.e)

FDiv(a, b) ==
    IF IsNaN(a) \/ IsNaN(b) THEN FNaN
    ELSE IF IsInf(a) THEN (IF IsInf(b) THEN FNaN ELSE FInf(a.s * b.s))
    ELSE IF IsInf(b) THEN FZero(a.s * b.s)
    ELSE IF IsZero(b) THEN (IF IsZero(a) THEN FNaN ELSE FInf(a.s * b.s))
    ELSE FNorm(a.s * b.s, (a.m * Pow2Table[MantissaBits + 2]) \div b.m,
               a.e - b.e - (MantissaBits + 2))

\* a + b for finite non-zero a, b with a.e >= b.e
FAddAligned(a, b) ==
    LET sh == a.e - b.e
        v  == a.s * a.m * Pow2Table[sh] + b.s * b.m
    IN  IF sh > MantissaBits + 2 THEN a
        ELSE IF v = 0 THEN FZero(1)
        ELSE IF v < 0 THEN FNorm(-1, -v, b.e)
        ELSE FNorm(1, v, b.e)

FAdd(a, b) ==
    IF IsNaN(a) \/ IsNaN(b) THEN FNaN
    ELSE IF IsInf(a) THEN (IF IsInf(b) /\ a.s # b.s THEN FNaN ELSE a)
    ELSE IF IsInf(b) THEN b
    ELSE IF IsZero(a) THEN (IF IsZero(b) /\ a.s # b.s THEN FZero(1) ELSE b)
    ELSE IF IsZero(b) THEN a
    ELSE IF a.e >= b.e THEN FAddAligned(a, b) ELSE FAddAligned(b, a)

FSub(a, b) == FAdd(a, FNeg(b))

\* a < b (false when either is NaN)
FLess(a, b) ==
    IF IsNaN(a) \/ IsNaN(b) THEN FALSE
    ELSE IF IsInf(a) THEN a.s = -1 /\ ~(IsInf(b) /\ b.s = -1)
    ELSE IF IsInf(b) THEN b.s = 1
    ELSE LET d == FSub(a, b) IN d.m > 0 /\ d.s = -1

\* std::min(a, b): (b < a) ? b : a
FMin(a, b) == IF FLess(b, a) THEN b ELSE a

\* the largest r in lo..hi with r * r <= n
RECURSIVE ISqrtIn(_, _, _)
ISqrtIn(n, lo, hi) ==
    IF lo >= hi THEN lo
    ELSE LET mid == (lo + hi + 1) \div 2
         IN  IF mid * mid <= n THEN ISqrtIn(n, mid, hi)
             ELSE ISqrtIn(n, lo, mid - 1)

\* std::sqrt
FSqrt(a) ==
    IF IsNaN(a) THEN FNaN
    ELSE IF IsZero(a) THEN a
    ELSE IF a.s = -1 THEN FNaN
    ELSE IF IsInf(a) THEN a
    ELSE LET odd == (a.e % 2) # 0
             m2  == IF odd THEN a.m * 2 ELSE a.m
             e2  == IF odd THEN a.e - 1 ELSE a.e
             t   == (29 - MantissaBits) \div 2
             n   == m2 * Pow2Table[2 * t]
         IN  FNorm(1, ISqrtIn(n, 0, 46340), (e2 \div 2) - t)

\* sum + term + ..., where term = y^n / n!: the power series of exp, summed
\* until a term no longer changes the sum (or for SeriesTerms terms)
RECURSIVE ExpSeries(_, _, _, _)
ExpSeries(y, sum, term, n) ==
    LET next == FAdd(sum, term)
    IN  IF n >= SeriesTerms \/ next = sum THEN next
        ELSE ExpSeries(y, next, FDiv(FMul(term, y), FromInt(n + 1)), n + 1)

\* std::exp
FExp(a) ==
    IF IsNaN(a) THEN FNaN
    ELSE IF IsInf(a) THEN (IF a.s = 1 THEN a ELSE FZero(1))
    ELSE IF IsZero(a) THEN FromInt(1)
    ELSE IF a.s = 1 THEN ExpSeries(a, FZero(1), FromInt(1), 0)
    ELSE FDiv(FromInt(1), ExpSeries(FNeg(a), FZero(1), FromInt(1), 0))

\* sum + zp / (2n + 1) + ..., where zp = z^(2n+1): the power series of atanh
RECURSIVE AtanhSeries(_, _, _, _)
AtanhSeries(z2, sum, zp, n) ==
    LET next == FAdd(sum, FDiv(zp, FromInt(2 * n + 1)))
    IN  IF n >= SeriesTerms \/ next = sum THEN next
        ELSE AtanhSeries(z2, next, FMul(zp, z2), n + 1)

\* ln x for a finite x > 0 near 1: 2 * atanh((x - 1) / (x + 1))
LnNear1(x) ==
    LET z == FDiv(FSub(x, FromInt(1)), FAdd(x, FromInt(1)))
    IN  FMul(FromInt(2), AtanhSeries(FMul(z, z), FZero(1), z, 0))

\* ln 2
Ln2 == LnNear1(FromInt(2))

\* std::log: ln(m * 2^e) = ln(m / MantissaLow) + (e + MantissaBits - 1) * ln 2
FLog(a) ==
    IF IsNaN(a) THEN FNaN
    ELSE IF IsZero(a) THEN FInf(-1)
    ELSE IF a.s = -1 THEN FNaN
    ELSE IF IsInf(a) THEN a
    ELSE FAdd(LnNear1([a EXCEPT !.e = -(MantissaBits - 1)]),
              FMul(FromInt(a.e + MantissaBits - 1), Ln2))

(***************************************************************************)
(* State.                                                                  *)
(***************************************************************************)
VARIABLES
    \* constructor arguments
    source, K, bandwidth, epsilon, starting_index,
    \* members of Clustering
    m_indices, m_centers, m_num_points, m_radii, m_rx, m_p_max,
    m_constant_series,
    \* locals of the GonzalezClustering constructor
    centers, cprev, cnext, far2c, dist, nc, i, j,
    \* frame of choose_truncation_number: its arguments, its locals, where
    \* it returns to and the value returned to a direct caller
    args, r, rx2, h2, error, temp, p, ret, result,
    \* the error bound after each number of terms (errors[q + 1] after q terms)
    errors,
    \* control: position, error raised, per-point/per-cluster arrays indexed
    pc, err, accessed

inputs == <<source, K, bandwidth, epsilon, starting_index>>

members == <<m_indices, m_centers, m_num_points, m_radii, m_rx, m_p_max,
             m_constant_series>>

locals == <<centers, cprev, cnext, far2c, dist, nc, i, j>>

frame == <<args, r, rx2, h2, error, temp, p, ret, result, errors>>

vars == <<inputs, members, locals, frame, pc, err, accessed>>

\* an element of an arma vector that was allocated but not yet assigned
Uninit == "uninitialized"

N == source.n_rows

Row(n) == source.mem[n]

RECURSIVE SumSquares(_, _, _)
SumSquares(x, y, c) ==
    IF c > Len(x) THEN 0
    ELSE (x[c] - y[c]) * (x[c] - y[c]) + SumSquares(x, y, c + 1)

\* squared Euclidean distance of two rows
ddist(x, y) == SumSquares(x, y, 1)

(***************************************************************************)
(* Collaborators declared outside clustering.cpp.                          *)
(***************************************************************************)
TruncationNumberUpperLimit == 200

RECURSIVE Binomial(_, _)
Binomial(n, k) ==
    IF k = 0 \/ k = n THEN 1
    ELSE IF k < 0 \/ k > n THEN 0
    ELSE Binomial(n - 1, k - 1) + Binomial(n - 1, k)

\* the constant-series vector of the given dimension and order: one constant
\* per monomial of total degree <= order
compute_constant_series(dimensions, order) ==
    [dimensions |-> dimensions, order |-> order,
     length |-> Binomial(dimensions + order, dimensions)]

\* a default-constructed arma::rowvec
EmptyRowvec == [dimensions |-> 0, order |-> 0, length |-> 0]

\* the clusters among 0..n-1 whose radius is maximal
get_radius_idxmax(radii, n) ==
    {c \in 0..(n - 1) : \A o \in 0..(n - 1) : radii[o] <= radii[c]}

RECURSIVE FMaxOver(_, _, _)
FMaxOver(v, c, best) ==
    IF c \notin DOMAIN v THEN best
    ELSE FMaxOver(v, c + 1, IF FLess(best, v[c]) THEN v[c] ELSE best)

\* the largest element of the radii
get_max_radius(radii) == FMaxOver(radii, 1, radii[0])

(***************************************************************************)
(* Clustering::choose_truncation_number                                    *)
(***************************************************************************)
\* lines 41-47: the locals on entry
EntryFrame(dimensions, bw, eps, rx) ==
    [r     |-> FMin(FSqrt(FromInt(dimensions)),
                    FMul(bw, FSqrt(FLog(FDiv(FromInt(1), eps))))),
     rx2   |-> FMul(rx, rx),
     h2    |-> FMul(bw, bw),
     error |-> FromInt(1),
     temp  |-> FromInt(1),
     p     |-> 0]

\* lines 50-54: one pass of the loop body, from the locals given
LoopBody(a, rv, rx2v, h2v, tempv, pv) ==
    LET p1 == pv + 1
        b  == FMin(FDiv(FAdd(a.rx,
                             FSqrt(FAdd(rx2v, FMul(FromInt(2 * p1), h2v)))),
                        FromInt(2)),
                   FAdd(a.rx, rv))
        c  == FSub(a.rx, b)
        t1 == FMul(tempv,
                   FDiv(FDiv(FMul(FMul(FromInt(2), a.rx), b), h2v),
                        FromInt(p1)))
        e1 == FMul(t1, FExp(FDiv(FMul(FNeg(c), c), h2v)))
    IN  [p |-> p1, temp |-> t1, error |-> e1]

\* the bandwidths and tolerances a clusterer is constructed with
CtorBandwidths == {FromInt(1), FromInt(0), FromInt(-1)}

CtorEpsilons ==
    {FDiv(FromInt(1), FromInt(2)), FromInt(0), FromInt(1), FromInt(2)}

\* the calls the Clustering constructor makes (line 34): m_rx is still zero
CtorCalls ==
    {[dimensions |-> d, bandwidth |-> bw, epsilon |-> eps, rx |-> FZero(1)] :
        d \in {1, 2}, bw \in CtorBandwidths, eps \in CtorEpsilons}

\* EntryFrame and the first pass of LoopBody, tabulated for these calls
EntryMemo ==
    [a \in CtorCalls |->
        EntryFrame(a.dimensions, a.bandwidth, a.epsilon, a.rx)]

FirstPassMemo ==
    [a \in CtorCalls |->
        LET f == EntryMemo[a]
        IN  LoopBody(a, f.r, f.rx2, f.h2, f.temp, f.p)]

Entry(a) ==
    IF a \in CtorCalls THEN EntryMemo[a]
    ELSE EntryFrame(a.dimensions, a.bandwidth, a.epsilon, a.rx)

Pass(a, rv, rx2v, h2v, tempv, pv) ==
    IF pv = 0 /\ a \in CtorCalls THEN FirstPassMemo[a]
    ELSE LoopBody(a, rv, rx2v, h2v, tempv, pv)

\* the call: the arguments are bound and the locals initialised
EnterChooseTruncationNumber(dimensions, bw, eps, rx, back) ==
    LET a == [dimensions |-> dimensions, bandwidth |-> bw,
              epsilon |-> eps, rx |-> rx]
    IN  \E f \in {Entry(a)} :
            /\ args' = a
            /\ r' = f.r
            /\ rx2' = f.rx2
            /\ h2' = f.h2
            /\ error' = f.error
            /\ temp' = f.temp
            /\ p' = f.p
            /\ errors' = <<f.error>>
            /\ ret' = back

\* line 49: the loop condition
LoopCondition == FLess(args.epsilon, error) /\ p <= TruncationNumberUpperLimit

\* lines 49-55: one pass of the loop
TruncationLoop ==
    /\ pc = "truncation_loop"
    /\ LoopCondition
    /\ \E f \in {Pass(args, r, rx2, h2, temp, p)} :
        /\ p' = f.p
        /\ temp' = f.temp
        /\ error' = f.error
        /\ errors' = Append(errors, f.error)
    /\ UNCHANGED <<inputs, members, locals, args, r, rx2, h2, ret, result,
                   pc, err, accessed>>

\* line 57, the call made directly
ReturnToCaller ==
    /\ pc = "truncation_loop"
    /\ ~LoopCondition
    /\ ret = "caller"
    /\ result' = p
    /\ pc' = "returned"
    /\ UNCHANGED <<inputs, members, locals, args, r, rx2, h2, error, temp, p,
                   ret, errors, err, accessed>>

(***************************************************************************)
(* Clustering::Clustering                                                  *)
(***************************************************************************)
\* lines 23-34: the member initialisers and the call of
\* choose_truncation_number
ClusteringCtor ==
    /\ pc = "Clustering"
    /\ m_indices' = [n \in 0..(N - 1) |-> 0]
    /\ m_centers' = [c \in 0..(K - 1) |-> [col \in 1..source.n_cols |-> 0]]
    /\ m_num_points' = [c \in 0..(K - 1) |-> 0]
    /\ m_radii' = [c \in 0..(K - 1) |-> Uninit]
    /\ m_rx' = FZero(1)
    /\ m_p_max' = 0
    /\ m_constant_series' = EmptyRowvec
    /\ EnterChooseTruncationNumber(source.n_cols, bandwidth, epsilon,
                                   m_rx', "Clustering")
    /\ pc' = "truncation_loop"
    /\ UNCHANGED <<inputs, locals, result, err, accessed>>

\* lines 33-35: the value returned becomes m_p_max, and the constant series
\* is computed from it
ClusteringResume ==
    /\ pc = "truncation_loop"
    /\ ~LoopCondition
    /\ ret = "Clustering"
    /\ m_p_max' = p
    /\ m_constant_series' = compute_constant_series(source.n_cols, p)
    /\ pc' = "Gonzalez"
    /\ UNCHANGED <<inputs, m_indices, m_centers, m_num_points, m_radii, m_rx,
                   locals, frame, err, accessed>>

(***************************************************************************)
(* GonzalezClustering::GonzalezClustering                                  *)
(***************************************************************************)
\* line 86
DefaultStartingIndex == [first |-> FALSE, second |-> 0]

\* lines 102-107: the given starting index, or any value of rd() % N
StartingChoices ==
    IF starting_index.first THEN {starting_index.second} ELSE 0..(N - 1)

\* std::min_element in the place of std::max_element
MinElement(d) ==
    CHOOSE n \in DOMAIN d :
        /\ \A o \in DOMAIN d : d[n] <= d[o]
        /\ \A o \in DOMAIN d : o < n => d[n] < d[o]

\* line 119: std::max_element, the first index holding the largest value
MaxElement(d) ==
    CHOOSE n \in DOMAIN d :
        /\ \A o \in DOMAIN d : d[o] <= d[n]
        /\ \A o \in DOMAIN d : o < n => d[o] < d[n]

\* lines 94-121 index centers(0), source.row(nc) and cnext(N - 1) without a
\* check: they are in range exactly when this holds of the starting index
InitInRange(start) == K >= 1 /\ N >= 1 /\ start \in 0..(N - 1)

\* lines 94-121: the first center, the distances to it, one circular list
\* over all points (cprev(0) = 0 - 1 wraps and is overwritten at line 117),
\* and the farthest point as far2c(0)
GonzalezInit ==
    /\ pc = "Gonzalez"
    /\ \E start \in StartingChoices :
        /\ InitInRange(start)
        /\ LET d0 == [n \in 0..(N - 1) |->
                        IF n = start THEN 0 ELSE ddist(Row(n), Row(start))]
               far == MaxElement(d0)
           IN  /\ centers' = [c \in 0..(K - 1) |->
                                IF c = 0 THEN start ELSE Uninit]
               /\ dist' = d0
               /\ cnext' = [n \in 0..(N - 1) |-> IF n = N - 1 THEN 0 ELSE n + 1]
               /\ cprev' = [n \in 0..(N - 1) |-> IF n = 0 THEN N - 1 ELSE n - 1]
               /\ nc' = far
               /\ far2c' = [c \in 0..(K - 1) |-> IF c = 0 THEN far ELSE Uninit]
               /\ m_radii' = [m_radii EXCEPT ![0] = d0[far]]
    /\ i' = 1
    /\ j' = 0
    /\ accessed' = {"centers", "dist", "cnext", "cprev", "far2c", "radii"}
    /\ pc' = "outer"
    /\ UNCHANGED <<inputs, m_indices, m_centers, m_num_points, m_rx, m_p_max,
                   m_constant_series, frame, err>>

\* the arrays indexed before the fault: none when rd() % N divides by zero,
\* centers(0) alone when K = 0 or when source.row(nc) is out of range
\* (line 111 evaluates its right-hand side first), centers(0) and
\* cnext(N - 1) when there is no row
AccessedBeforeFault ==
    IF N < 1 /\ ~starting_index.first THEN {}
    ELSE IF K >= 1 /\ N < 1 THEN {"centers", "cnext"}
    ELSE {"centers"}

\* lines 94-121 with an index out of range: armadillo's bounds check throws
\* std::logic_error, and a build without the check has undefined behaviour,
\* as rd() % 0 has in every build
GonzalezFault ==
    /\ pc = "Gonzalez"
    /\ \E start \in (StartingChoices \cup {0}) : ~InitInRange(start)
    /\ accessed' = AccessedBeforeFault
    /\ err' \in IF N < 1 /\ ~starting_index.first
                THEN {"undefined"} ELSE {"logic_error", "undefined"}
    /\ pc' = "aborted"
    /\ UNCHANGED <<inputs, members, locals, frame>>

\* lines 132-135: nc leaves its list and becomes a list of its own
Unlink(nx, pv, n) ==
    LET nx1 == [nx EXCEPT ![pv[n]] = nx[n]]
        pv1 == [pv EXCEPT ![nx1[n]] = pv[n]]
    IN  [cnext |-> [nx1 EXCEPT ![n] = n], cprev |-> [pv1 EXCEPT ![n] = n]]

\* lines 124-135: the next center is far2c of a cluster of maximal radius
OuterSelect ==
    /\ pc = "outer"
    /\ i < K
    /\ \E jmax \in get_radius_idxmax(m_radii, i) :
        LET n  == far2c[jmax]
            ln == Unlink(cnext, cprev, n)
        IN  /\ nc' = n
            /\ centers' = [centers EXCEPT ![i] = n]
            /\ m_radii' = [m_radii EXCEPT ![i] = 0]
            /\ dist' = [dist EXCEPT ![n] = 0]
            /\ m_indices' = [m_indices EXCEPT ![n] = i]
            /\ far2c' = [far2c EXCEPT ![i] = n]
            /\ cnext' = ln.cnext
            /\ cprev' = ln.cprev
    /\ j' = 0
    /\ accessed' = accessed \cup {"indices"}
    /\ pc' = "inner"
    /\ UNCHANGED <<inputs, m_centers, m_num_points, m_rx, m_p_max,
                   m_constant_series, i, frame, err>>

\* dc2cq taken as half of the squared distance of the two centers
HalfLess(d2, x) == d2 < 2 * x

\* lines 139-140: dc2cq < x, where dc2cq is a quarter of the squared
\* distance d2 of the two centers (the quarter of an integer is exact)
QuarterLess(d2, x) == d2 < 4 * x

\* lines 147 and 149: k moves to the new cluster when it is farther from its
\* center than dc2cq and strictly nearer to the new center
Moves(d2, dist2c_k, dd) == QuarterLess(d2, dist2c_k) /\ dd < dist2c_k

\* lines 150-161: k takes the new center's distance and cluster, cluster i's
\* radius follows, and k moves to the head of the new center's list
MoveToNew(st, k, nextk, dd, inew, cnew) ==
    LET nx1 == [st.cnext EXCEPT ![st.cprev[k]] = nextk]
        pv1 == [st.cprev EXCEPT ![nextk] = st.cprev[k]]
        nx2 == [nx1 EXCEPT ![k] = nx1[cnew]]
        pv2 == [pv1 EXCEPT ![nx2[cnew]] = k]
        nx3 == [nx2 EXCEPT ![cnew] = k]
        pv3 == [pv2 EXCEPT ![k] = cnew]
        grows == st.radii[inew] < dd
    IN  [st EXCEPT !.dist[k] = dd,
                   !.indices[k] = inew,
                   !.radii[inew] = IF grows THEN dd ELSE @,
                   !.far2c[inew] = IF grows THEN k ELSE @,
                   !.cnext = nx3,
                   !.cprev = pv3]

\* k stays and the radius follows, but far2c is left as it was
StaysStale(st, k, jold) ==
    IF st.radii[jold] < st.dist[k]
    THEN [st EXCEPT !.radii[jold] = st.dist[k]]
    ELSE st

\* lines 162-169: k stays, and cluster jold's radius follows
Stays(st, k, jold) ==
    IF st.radii[jold] < st.dist[k]
    THEN [st EXCEPT !.radii[jold] = st.dist[k], !.far2c[jold] = k]
    ELSE st

\* lines 144-171: the walk over the list of center ct_j, from k
RECURSIVE ScanList(_, _, _, _, _, _, _)
ScanList(st, k, ct_j, d2, jold, inew, cnew) ==
    IF k = ct_j THEN st
    ELSE LET nextk == st.cnext[k]
             dd    == ddist(Row(k), Row(cnew))
             st1   == IF Moves(d2, st.dist[k], dd)
                      THEN MoveToNew(st, k, nextk, dd, inew, cnew)
                      ELSE Stays(st, k, jold)
         IN  ScanList(st1, nextk, ct_j, d2, jold, inew, cnew)

\* lines 138-172: cluster jold against the new center of cluster inew
ScanCluster(st, jold, inew, cnew) ==
    LET ct_j == centers[jold]
        d2   == ddist(Row(ct_j), Row(cnew))
    IN  IF QuarterLess(d2, st.radii[jold])
        THEN ScanList([st EXCEPT !.radii[jold] = 0, !.far2c[jold] = ct_j],
                      st.cnext[ct_j], ct_j, d2, jold, inew, cnew)
        ELSE st

\* lines 137-173: the loop over the clusters j < inew, from jold
RECURSIVE ScanClusters(_, _, _, _)
ScanClusters(st, jold, inew, cnew) ==
    IF jold >= inew THEN st
    ELSE ScanClusters(ScanCluster(st, jold, inew, cnew), jold + 1, inew, cnew)

\* lines 137-174: the loop over the clusters j < i, which ends iteration i of
\* the outer loop
InnerLoop ==
    /\ pc = "inner"
    /\ LET st == ScanClusters([dist |-> dist, indices |-> m_indices,
                               radii |-> m_radii, far2c |-> far2c,
                               cnext |-> cnext, cprev |-> cprev], 0, i, nc)
       IN  /\ dist' = st.dist
           /\ m_indices' = st.indices
           /\ m_radii' = st.radii
           /\ far2c' = st.far2c
           /\ cnext' = st.cnext
           /\ cprev' = st.cprev
    /\ j' = i
    /\ i' = i + 1
    /\ pc' = "outer"
    /\ UNCHANGED <<inputs, m_centers, m_num_points, m_rx, m_p_max,
                   m_constant_series, centers, nc, frame, err, accessed>>

\* choose_truncation_number run to its end from the locals st
RECURSIVE TruncationFrom(_, _, _)
TruncationFrom(a, f, st) ==
    IF FLess(a.epsilon, st.error) /\ st.p <= TruncationNumberUpperLimit
    THEN TruncationFrom(a, f, LoopBody(a, f.r, f.rx2, f.h2, st.temp, st.p))
    ELSE st.p

\* the truncation number and the constant series chosen again once rx is
\* known
FinalizeRechoosing ==
    /\ pc = "outer"
    /\ i >= K
    /\ m_radii' = [c \in 0..(K - 1) |-> FSqrt(FromInt(m_radii[c]))]
    /\ m_rx' = get_max_radius(m_radii')
    /\ LET a == [dimensions |-> source.n_cols, bandwidth |-> bandwidth,
                 epsilon |-> epsilon, rx |-> m_rx']
           f == EntryFrame(a.dimensions, a.bandwidth, a.epsilon, a.rx)
       IN  /\ m_p_max' = TruncationFrom(a, f, f)
           /\ m_constant_series' =
                  compute_constant_series(source.n_cols, m_p_max')
    /\ pc' = "centroids"
    /\ UNCHANGED <<inputs, m_indices, m_centers, m_num_points, locals, frame,
                   err, accessed>>

\* lines 176-177: the radii become distances, and rx the largest of them
Finalize ==
    /\ pc = "outer"
    /\ i >= K
    /\ m_radii' = [c \in 0..(K - 1) |-> FSqrt(FromInt(m_radii[c]))]
    /\ m_rx' = get_max_radius(m_radii')
    /\ pc' = "centroids"
    /\ UNCHANGED <<inputs, m_indices, m_centers, m_num_points, m_p_max,
                   m_constant_series, locals, frame, err, accessed>>

\* the count of the first cluster incremented whatever the cluster
increment_first(counts, c) == [counts EXCEPT ![0] = @ + 1]

\* line 181
increment_num_points(counts, c) == [counts EXCEPT ![c] = @ + 1]

\* line 182
AddRow(coords, c, row) ==
    [coords EXCEPT ![c] = [col \in DOMAIN row |-> @[col] + row[col]]]

\* lines 180-183: the loop over the points from n
RECURSIVE Accumulate(_, _, _)
Accumulate(n, counts, coords) ==
    IF n >= N THEN [num_points |-> counts, coordinates |-> coords]
    ELSE Accumulate(n + 1, increment_num_points(counts, m_indices[n]),
                    AddRow(coords, m_indices[n], Row(n)))

\* lines 184-185: each row divided by its cluster's number of points
Centroid(coords, counts) ==
    [c \in DOMAIN coords |->
        [col \in DOMAIN coords[c] |->
            FDiv(FromInt(coords[c][col]), FromInt(counts[c]))]]

\* lines 179-185: the centers become the centroids of the clusters
ComputeCentroids ==
    /\ pc = "centroids"
    /\ LET acc == Accumulate(0, m_num_points, m_centers)
       IN  /\ m_num_points' = acc.num_points
           /\ m_centers' = Centroid(acc.coordinates, acc.num_points)
    /\ pc' = "done"
    /\ UNCHANGED <<inputs, m_indices, m_radii, m_rx, m_p_max,
                   m_constant_series, locals, frame, err, accessed>>

(***************************************************************************)
(* Inputs and specifications.                                              *)
(***************************************************************************)
\* rows of one column: four coordinates at different distances of each
\* other; rows of two columns: the corners of the square of side
\* MaxCoord
Rows(cols) ==
    IF cols = 1 THEN {<<x>> : x \in {0, 1, MaxCoord, MaxCoord + 2}}
    ELSE {<<x, y>> : x \in {0, MaxCoord}, y \in {0, MaxCoord}}

\* the matrices of n rows: of one column, and up to MaxPlanarN rows of two
Mats(n) ==
    {[n_rows |-> n, n_cols |-> cols, mem |-> m] :
        cols \in {1}, m \in [0..(n - 1) -> Rows(1)]}
    \cup
    {[n_rows |-> n, n_cols |-> cols, mem |-> m] :
        cols \in {2},
        m \in IF n <= MaxPlanarN THEN [0..(n - 1) -> Rows(2)] ELSE {}}

Ratio(a, b) == FDiv(FromInt(a), FromInt(b))

\* the state before the constructor runs: nothing is allocated
Unconstructed ==
    /\ m_indices = <<>> /\ m_centers = <<>> /\ m_num_points = <<>>
    /\ m_radii = <<>> /\ m_rx = FZero(1) /\ m_p_max = 0
    /\ m_constant_series = EmptyRowvec
    /\ centers = <<>> /\ cprev = <<>> /\ cnext = <<>> /\ far2c = <<>>
    /\ dist = <<>> /\ nc = 0 /\ i = 0 /\ j = 0
    /\ err = "none" /\ accessed = {}

NoFrame ==
    /\ args = [dimensions |-> 0, bandwidth |-> FZero(1),
               epsilon |-> FZero(1), rx |-> FZero(1)]
    /\ r = FZero(1) /\ rx2 = FZero(1) /\ h2 = FZero(1)
    /\ error = FZero(1) /\ temp = FZero(1) /\ p = 0
    /\ ret = "none" /\ result = 0 /\ errors = <<>>

\* the arguments the contract of GonzalezClustering allows
ValidArgs ==
    /\ N >= 1 /\ K >= 1 /\ K <= N
    /\ FLess(FZero(1), bandwidth)
    /\ FLess(FZero(1), epsilon) /\ FLess(epsilon, FromInt(1))
    /\ (starting_index.first => starting_index.second \in 0..(N - 1))

\* a GonzalezClustering is constructed from valid arguments
Init ==
    /\ \E n \in 1..MaxN :
        /\ source \in Mats(n)
        /\ K \in 1..n
        /\ starting_index \in
              {[first |-> TRUE, second |-> s] : s \in 0..(n - 1)}
    /\ bandwidth = FromInt(1)
    /\ epsilon = Ratio(1, 2)
    /\ Unconstructed
    /\ NoFrame
    /\ pc = "Clustering"

Next ==
    \/ ClusteringCtor
    \/ TruncationLoop
    \/ ClusteringResume
    \/ GonzalezInit
    \/ OuterSelect
    \/ InnerLoop
    \/ Finalize
    \/ ComputeCentroids

Spec == Init /\ [][Next]_vars

\* a GonzalezClustering is constructed from arguments nobody checked
InitArgs ==
    /\ \E n \in 0..MaxArgN :
        /\ source \in Mats(n)
        /\ K \in 0..(n + 1)
        /\ starting_index \in
              {[first |-> TRUE, second |-> s] : s \in 0..n}
              \cup {DefaultStartingIndex}
    /\ bandwidth \in CtorBandwidths
    /\ epsilon \in CtorEpsilons
    /\ Unconstructed
    /\ NoFrame
    /\ pc = "Clustering"

NextArgs == Next \/ GonzalezFault

SpecArgs == InitArgs /\ [][NextArgs]_vars

\* choose_truncation_number is called directly
InitTruncation ==
    /\ source = [n_rows |-> 0, n_cols |-> 0, mem |-> <<>>]
    /\ K = 0
    /\ bandwidth = FZero(1)
    /\ epsilon = FZero(1)
    /\ starting_index = DefaultStartingIndex
    /\ Unconstructed
    /\ result = 0
    /\ \E dimensions \in 1..3,
          bw \in {FromInt(1), FromInt(2), Ratio(1, 2)},
          eps \in {Ratio(1, 2), Ratio(1, 10), Ratio(1, 100), FromInt(1)},
          rx \in {FromInt(0), Ratio(1, 2), FromInt(1), FromInt(2),
                  FromInt(10)} :
        \E f \in {EntryFrame(dimensions, bw, eps, rx)} :
            /\ args = [dimensions |-> dimensions, bandwidth |-> bw,
                       epsilon |-> eps, rx |-> rx]
            /\ r = f.r /\ rx2 = f.rx2 /\ h2 = f.h2
            /\ error = f.error /\ temp = f.temp /\ p = f.p
            /\ errors = <<f.error>>
    /\ ret = "caller"
    /\ pc = "truncation_loop"

NextTruncation == TruncationLoop \/ ReturnToCaller

SpecTruncation == InitTruncation /\ [][NextTruncation]_vars

(***************************************************************************)
(* Vocabulary of the properties.                                           *)
(***************************************************************************)
Points == 0..(N - 1)

Clusters == 0..(K - 1)

\* the points assigned to cluster c
Members(c) == {n \in Points : m_indices[n] = c}

\* the point chosen as the seed of cluster c
Seed(c) == centers[c]

PassOver == pc \in {"centroids", "done"}

\* the source holds at least K different rows
KDistinctRows == Cardinality({Row(n) : n \in Points}) >= K

RECURSIVE SumUpTo(_, _)
SumUpTo(f, n) == IF n < 0 THEN 0 ELSE f[n] + SumUpTo(f, n - 1)

\* the largest element of a non-empty set of integers
MaxOf(S) == CHOOSE x \in S : \A y \in S : y <= x

MinOf(S) == CHOOSE x \in S : \A y \in S : x <= y

\* squared distance of point n to the nearest of the seeds of clusters 0..c-1,
\* computed from the rows
NearestSeedDist(n, c) ==
    MinOf({ddist(Row(n), Row(Seed(o))) : o \in 0..(c - 1)})

\* the points the list of k links, following cnext from k
RECURSIVE Walk(_, _)
Walk(k, seen) == IF k \in seen THEN seen ELSE Walk(cnext[k], seen \cup {k})

ListOf(k) == Walk(k, {})

\* the largest squared distance from the seed of c to a member of c
SeedRadius2(c) == MaxOf({ddist(Row(n), Row(Seed(c))) : n \in Members(c)})

(***************************************************************************)
(* C1: after the constructor, for valid arguments, every point is assigned *)
(* to a cluster in [0,K), the number of points of each cluster is the      *)
(* number of points assigned to it and these numbers sum to N, and every   *)
(* radius is >= 0.                                                         *)
(***************************************************************************)
C1_AssignmentTotal ==
    (pc = "done" /\ ValidArgs) =>
        /\ \A n \in Points : m_indices[n] \in Clusters
        /\ \A c \in Clusters : m_num_points[c] = Cardinality(Members(c))
        /\ SumUpTo(m_num_points, K - 1) = N
        /\ \A c \in Clusters :
              ~IsNaN(m_radii[c]) /\ ~FLess(m_radii[c], FZero(1))

C1_Witness ==
    /\ pc = "done" /\ ValidArgs /\ N = MaxN /\ K = 3
    /\ \E c \in Clusters : m_num_points[c] = 2 /\ ~IsZero(m_radii[c])

(***************************************************************************)
(* C2: the final assignment equals that of a brute-force farthest-point    *)
(* clustering from the same starting index: every iteration recomputes the *)
(* distance of every point to every chosen center, takes a farthest point  *)
(* as the next center, and moves a point only when it is strictly nearer   *)
(* to the new center.                                                      *)
(***************************************************************************)
\* squared distance of point n to the nearest of the centers cs
BruteDist(cs, n) ==
    MinOf({ddist(Row(n), Row(cs[c])) : c \in 1..Len(cs)})

\* the points farthest from the centers cs
BruteFarthest(cs) ==
    {n \in Points : \A o \in Points : BruteDist(cs, o) <= BruteDist(cs, n)}

\* the assignments a brute-force run can end with, from centers cs and
\* assignment idx, when every point, the new center too, moves only when
\* strictly nearer to the new center
RECURSIVE BruteRuns(_, _)
BruteRuns(cs, idx) ==
    IF Len(cs) >= K THEN {idx}
    ELSE UNION {BruteRuns(Append(cs, f),
                          [n \in Points |->
                              IF ddist(Row(n), Row(f)) < BruteDist(cs, n)
                              THEN Len(cs) ELSE idx[n]]) :
                f \in BruteFarthest(cs)}

C2_MatchesBruteForce ==
    (PassOver /\ ValidArgs) =>
        m_indices \in BruteRuns(<<Seed(0)>>, [n \in Points |-> 0])

\* the same, for sources of at least K different rows
C2_DistinctRows ==
    (PassOver /\ ValidArgs /\ KDistinctRows) =>
        m_indices \in BruteRuns(<<Seed(0)>>, [n \in Points |-> 0])

\* Amended: the centers of the pass are the choices of such a run, each a
\* farthest point, and the assignment is that of the run, except that the new
\* center always moves to the cluster it starts, whether or not it is
\* strictly nearer to itself than to an earlier center.

\* the cluster such a run leaves point n in: that of the last center that n
\* is, or that n was strictly nearer to than to every center before it
SeededBruteCluster(n) ==
    MaxOf({0} \cup {c \in 1..(K - 1) :
                       \/ n = Seed(c)
                       \/ ddist(Row(n), Row(Seed(c))) < NearestSeedDist(n, c)})

C2_MatchesSeededBruteForce ==
    (PassOver /\ ValidArgs) =>
        /\ \A c \in 1..(K - 1) : \A n \in Points :
              NearestSeedDist(n, c) <= NearestSeedDist(Seed(c), c)
        /\ \A n \in Points : m_indices[n] = SeededBruteCluster(n)

\* a run of three clusters in which the last center took a point with it
C2_Witness ==
    /\ PassOver /\ ValidArgs /\ K = 3 /\ N = MaxN
    /\ \E n \in Members(2) : n # Seed(2)

(***************************************************************************)
(* C3: when K = N, every cluster ends with exactly one point and radius 0. *)
(***************************************************************************)
C3_OnePointEach ==
    (pc = "done" /\ ValidArgs /\ K = N) =>
        \A c \in Clusters : m_num_points[c] = 1 /\ IsZero(m_radii[c])

\* the same, for sources of N different rows
C3_DistinctRows ==
    (pc = "done" /\ ValidArgs /\ K = N /\ KDistinctRows) =>
        \A c \in Clusters : m_num_points[c] = 1 /\ IsZero(m_radii[c])

(***************************************************************************)
(* C4: when K = 1, the stored center is the centroid of all points and the *)
(* stored radius is the largest distance from that centroid to a point.    *)
(* Amended: the stored radius is the largest distance from the starting    *)
(* point to a point.                                                       *)
(***************************************************************************)
RECURSIVE SumColumn(_, _)
SumColumn(col, n) ==
    IF n < 0 THEN 0 ELSE Row(n)[col] + SumColumn(col, n - 1)

\* the mean of the rows
CentroidOfAll ==
    [col \in 1..source.n_cols |->
        FDiv(FromInt(SumColumn(col, N - 1)), FromInt(N))]

RECURSIVE SquaredNorm(_, _, _)
SquaredNorm(row, point, col) ==
    IF col > Len(row) THEN FZero(1)
    ELSE LET d == FSub(FromInt(row[col]), point[col])
         IN  FAdd(FMul(d, d), SquaredNorm(row, point, col + 1))

\* the distance of a row to a point of real coordinates
DistanceTo(row, point) == FSqrt(SquaredNorm(row, point, 1))

\* the largest distance from a point of real coordinates to a row
RECURSIVE MaxDistanceTo(_, _)
MaxDistanceTo(point, n) ==
    IF n = 0 THEN DistanceTo(Row(0), point)
    ELSE LET rest == MaxDistanceTo(point, n - 1)
             here == DistanceTo(Row(n), point)
         IN  IF FLess(rest, here) THEN here ELSE rest

C4_RadiusFromCentroid ==
    (pc = "done" /\ ValidArgs /\ K = 1) =>
        /\ m_centers[0] = CentroidOfAll
        /\ m_radii[0] = MaxDistanceTo(CentroidOfAll, N - 1)

C4_RadiusFromSeed ==
    (pc = "done" /\ ValidArgs /\ K = 1) =>
        /\ m_centers[0] = CentroidOfAll
        /\ m_radii[0] =
              FSqrt(FromInt(MaxOf({ddist(Row(n), Row(Seed(0))) : n \in Points})))

C4_Witness ==
    /\ pc = "done" /\ ValidArgs /\ K = 1 /\ N = 3
    /\ m_centers[0] # [col \in 1..source.n_cols |-> FromInt(Row(Seed(0))[col])]
    /\ m_radii[0] # MaxDistanceTo(CentroidOfAll, N - 1)

(***************************************************************************)
(* C5: arguments outside the contract (K <= 0, K > N, N = 0, bandwidth <= 0,*)
(* epsilon outside (0,1), starting index outside [0,N)) end the            *)
(* construction in an invalid-argument error, raised before any per-point  *)
(* or per-cluster array is indexed.                                        *)
(***************************************************************************)
C5_RejectedBeforeAccess ==
    (pc \in {"done", "aborted"} /\ ~ValidArgs) =>
        err = "invalid_argument" /\ accessed = {}

(***************************************************************************)
(* C6: choose_truncation_number returns the smallest p >= 0 whose error    *)
(* bound is <= epsilon, and never more than TruncationNumberUpperLimit.    *)
(***************************************************************************)
C6_SmallestAndCapped ==
    pc = "returned" =>
        /\ result <= TruncationNumberUpperLimit
        /\ \A q \in 0..(result - 1) : FLess(args.epsilon, errors[q + 1])
        /\ result < TruncationNumberUpperLimit =>
              ~FLess(args.epsilon, errors[result + 1])

\* the part that holds: the smallest p whose bound is <= epsilon, or one more
\* than the limit
C6_SmallestOrLimitPlusOne ==
    pc = "returned" =>
        /\ result <= TruncationNumberUpperLimit + 1
        /\ \A q \in 0..(result - 1) : FLess(args.epsilon, errors[q + 1])
        /\ result <= TruncationNumberUpperLimit =>
              ~FLess(args.epsilon, errors[result + 1])

(***************************************************************************)
(* C7: m_p_max and the constant series are computed once, in the base      *)
(* constructor, from rx at its initial zero; the steps after the base      *)
(* constructor, which compute the radii and set rx, leave them unchanged.  *)
(***************************************************************************)
C7_FixedBeforeClustering ==
    [][/\ (pc = "truncation_loop" /\ ret = "Clustering") =>
              IsZero(args.rx) /\ IsZero(m_rx)
       /\ (m_p_max' # m_p_max \/ m_constant_series' # m_constant_series) =>
              /\ pc = "truncation_loop" /\ ret = "Clustering"
              /\ pc' = "Gonzalez"
              /\ m_p_max' = p
              /\ m_constant_series' = compute_constant_series(source.n_cols, p)
       /\ m_rx' # m_rx => pc = "outer" /\ pc' = "centroids"
      ]_<<pc, m_rx, m_p_max, m_constant_series>>

C7_Witness ==
    /\ pc = "done" /\ ValidArgs
    /\ ~IsZero(m_rx)
    /\ m_p_max = 1
    /\ m_constant_series = compute_constant_series(source.n_cols, 1)

(***************************************************************************)
(* C8: in every iteration i = 1..K-1 the point selected as the new center  *)
(* is a point whose squared distance to its nearest previously chosen      *)
(* center is maximal over all points.                                      *)
(***************************************************************************)
C8_SelectsFarthest ==
    (pc = "inner" /\ ValidArgs) =>
        /\ Seed(i) = nc
        /\ \A n \in Points : NearestSeedDist(n, i) <= NearestSeedDist(nc, i)

C8_Witness ==
    /\ pc = "inner" /\ ValidArgs /\ i = 2
    /\ m_indices[nc] = i
    /\ \E n \in Points :
          0 < NearestSeedDist(n, i) /\ NearestSeedDist(n, i) < NearestSeedDist(nc, i)

(***************************************************************************)
(* C9: after initialisation and at the end of every outer iteration, cnext *)
(* and cprev are inverse, and the list of the seed of every cluster chosen *)
(* so far holds exactly the points assigned to that cluster.               *)
(***************************************************************************)
ListsAreMembers ==
    /\ \A k \in Points : cprev[cnext[k]] = k /\ cnext[cprev[k]] = k
    /\ \A c \in 0..(i - 1) : ListOf(Seed(c)) = Members(c)

C9_ListsAreMembers == (pc = "outer" /\ ValidArgs) => ListsAreMembers

\* the same, for sources of at least K different rows
C9_DistinctRows ==
    (pc = "outer" /\ ValidArgs /\ KDistinctRows) => ListsAreMembers

(***************************************************************************)
(* C10: at the end of every outer iteration, for every cluster chosen so   *)
(* far, the radius is the largest squared distance from the seed to a      *)
(* member and far2c is a member at that distance; the final radius is the  *)
(* largest distance from the seed to a member, and rx the largest radius.  *)
(***************************************************************************)
RadiiAreSeedRadii ==
    \A c \in 0..(i - 1) :
        /\ far2c[c] \in Members(c)
        /\ m_radii[c] = SeedRadius2(c)
        /\ ddist(Row(far2c[c]), Row(Seed(c))) = m_radii[c]

FinalRadiiAreSeedRadii ==
    /\ \A c \in Clusters :
          /\ Members(c) # {}
          /\ m_radii[c] = FSqrt(FromInt(SeedRadius2(c)))
    /\ \E c \in Clusters : m_rx = m_radii[c]
    /\ \A c \in Clusters : ~FLess(m_rx, m_radii[c])

C10_RadiiAreSeedRadii ==
    /\ (pc = "outer" /\ ValidArgs) => RadiiAreSeedRadii
    /\ (PassOver /\ ValidArgs) => FinalRadiiAreSeedRadii

\* the same, for sources of at least K different rows
C10_DistinctRows ==
    /\ (pc = "outer" /\ ValidArgs /\ KDistinctRows) => RadiiAreSeedRadii
    /\ (PassOver /\ ValidArgs /\ KDistinctRows) => FinalRadiiAreSeedRadii

\* an iteration in which a cluster with members away from its seed is skipped
\* by the pruning test
SkipWitness ==
    /\ pc = "inner" /\ ValidArgs /\ KDistinctRows
    /\ \E c \in 0..(i - 1) :
          /\ m_radii[c] > 0
          /\ ~QuarterLess(ddist(Row(Seed(c)), Row(nc)), m_radii[c])

====
